---------------------------- MODULE Spec2Model ----------------------------
(***************************************************************************)
(* Skillzy Arena backend: match lifecycle (src/match.js), withdrawal       *)
(* requests (src/withdrawal.js), wallets (src/wallet.js) and the batch     *)
(* withdrawal processor (src/index.js).                                    *)
(*                                                                         *)
(* Money is kept in hundredths of a currency unit (the code rounds every   *)
(* converted amount to 2 decimals), so 10.00 is 1000.  Identifiers that    *)
(* the code draws from uuidv4() are fresh counters.  Every route handler   *)
(* runs to completion on the event loop, so a handler is one action; a     *)
(* setTimeout callback is a separate action enabled while the timer is     *)
(* pending.                                                                *)
(***************************************************************************)
EXTENDS Integers, Sequences, FiniteSets, TLC

VARIABLES
  now,                  \* Date.now(), in ticks of one hour
  \* src/match.js
  activeMatches, waitingPlayers, matchHistory, nextMatchId,
  sockets,              \* the WebSocket objects handed to handleWebSocket
  delivered,            \* the events sent on each socket: <<socket, type, matchId>>
  \* src/withdrawal.js
  withdrawalRequests, processingQueue, completedWithdrawals,
  wdObjects, gatewayTimers, nextWithdrawalId,
  \* src/wallet.js
  userWallets, transactions, pendingWithdrawals, developerWallet,
  depositTimers, nextTxnId,
  walletInfo,           \* the wallet info of the last GET /:userId response, <<>> before the first
  \* src/index.js (scripts/process-withdrawals.js)
  batchQueue,           \* the withdrawals array of the current batch run
  batchPc,              \* where processWithdrawals stands
  failedAttempts,       \* per withdrawal id, the gateway attempts that have failed so far
  \* src/flutter-backend.js
  flutterOtpStore,      \* global.flutterOtpStore
  otpNow,               \* Date.now() of the OTP handlers, in minutes
  verifyResponse        \* the mobile and code of the last /auth/verify-mobile response

matchVars == <<activeMatches, waitingPlayers, matchHistory, nextMatchId>>
wsVars == <<sockets, delivered>>
wdVars == <<withdrawalRequests, processingQueue, completedWithdrawals,
            wdObjects, gatewayTimers, nextWithdrawalId>>
walletVars == <<userWallets, transactions, pendingWithdrawals,
                developerWallet, depositTimers, nextTxnId, walletInfo>>
batchVars == <<batchQueue, batchPc, failedAttempts>>
otpVars == <<flutterOtpStore, otpNow, verifyResponse>>
vars == <<now, matchVars, wsVars, wdVars, walletVars, batchVars, otpVars>>

-----------------------------------------------------------------------------
(* Bounds *)

MaxTime == 1
MaxMatches == 2
MaxWithdrawals == 3
MaxTxns == 3
MaxAttempts == 4
MaxOtpTime == 6

NULL == "null"
EmptyMap == [x \in {} |-> NULL]

\* Map.delete(k)
\* a delete that leaves the entry in the map
MapDelete_Keep(map, k) == map

MapDelete(map, k) == [x \in (DOMAIN map) \ {k} |-> map[x]]
\* Map.set(k, v)
MapSet(map, k, v) == [x \in (DOMAIN map) \cup {k} |-> IF x = k THEN v ELSE map[x]]

-----------------------------------------------------------------------------
(* Currency conversion, shared by match.js, wallet.js and withdrawal.js *)

\* CURRENCY_RATES, times 10000
CURRENCY_RATES ==
  [INR |-> 10000, USD |-> 120, EUR |-> 110, GBP |-> 95, CNY |-> 860,
   JPY |-> 18000, KRW |-> 162000, BRL |-> 620, RUB |-> 11000, AED |-> 440,
   SAR |-> 450, CAD |-> 160, AUD |-> 180]

Currencies == DOMAIN CURRENCY_RATES

RECURSIVE GCD(_, _)
GCD(a, b) == IF b = 0 THEN a ELSE GCD(b, a % b)

\* Math.round(x) for x = num/den, den > 0: the nearest integer, ties upwards
MathRound(num, den) ==
  LET q == num \div den
      r == num % den
  IN IF 2 * r >= den THEN q + 1 ELSE q

\* Math.round(amount / rate[from] * rate[to] * 100) / 100, in hundredths
\* the two rates are reduced by their common divisor first, which leaves the
\* quotient unchanged and keeps the product within 32 bits
convertCurrency(amount, fromCurrency, toCurrency) ==
  LET g == GCD(CURRENCY_RATES[toCurrency], CURRENCY_RATES[fromCurrency])
  IN MathRound(amount * (CURRENCY_RATES[toCurrency] \div g),
               CURRENCY_RATES[fromCurrency] \div g)

-----------------------------------------------------------------------------
(* src/match.js *)

GameTypes == {"chess", "snakeLadder", "carrom"}

\* GAME_CONFIGS: betAmount 10, payoutSplit 16 / 4 (INR), in hundredths
GAME_CONFIGS ==
  [g \in GameTypes |->
     [duration |-> 60, betAmount |-> 1000,
      payoutSplit |-> [winner |-> 1600, platform |-> 400]]]

\* request inputs enumerated by the match specification
Players == {"p1", "p2"}
FindRequests == {<<"chess", "INR">>, <<"chess", "GBP">>, <<"carrom", "INR">>}
ScoreInputs == {-1, 1}

\* a waiting list per game type, whatever the currency
waitingKey_GameOnly(gameType, currency) == <<gameType, "INR">>

\* `${gameType}_${currency}`
waitingKey(gameType, currency) == <<gameType, currency>>

InMatch(match, playerId) == \E i \in 1..2 : match.players[i].id = playerId

\* Array.from(activeMatches.values()).find(...): Map iteration is insertion
\* order, and match ids are issued in increasing order; 0 when none is found
existingMatch(playerId) ==
  LET found == {m \in DOMAIN activeMatches : InMatch(activeMatches[m], playerId)}
  IN IF found = {} THEN 0
     ELSE CHOOSE m \in found : \A n \in found : m <= n

\* broadcastToMatch(matchId, data), called when the active matches are
\* matches: the events delivered once every player of the match with an open
\* socket has been sent the event
broadcastToMatch(matches, matchId, type) ==
  IF matchId \notin DOMAIN matches THEN delivered
  ELSE delivered \cup
         {<<matches[matchId].players[i].ws, type, matchId>> :
            i \in {j \in 1..2 :
                     /\ matches[matchId].players[j].ws # NULL
                     /\ sockets[matches[matchId].players[j].ws].readyState = "OPEN"}}

\* the match object built by /find
NewMatch(matchId, gameType, currency, playerId, opponent) ==
  [id |-> matchId,
   gameType |-> gameType,
   currency |-> currency,
   betAmount |-> convertCurrency(GAME_CONFIGS[gameType].betAmount, "INR", currency),
   players |-> <<[id |-> playerId, score |-> 0, status |-> "connected", ws |-> NULL],
                 [id |-> opponent.id, score |-> 0, status |-> "connected", ws |-> NULL]>>,
   status |-> "starting",
   startTime |-> now,
   payout |-> [winner |-> convertCurrency(GAME_CONFIGS[gameType].payoutSplit.winner, "INR", currency),
               platform |-> convertCurrency(GAME_CONFIGS[gameType].payoutSplit.platform, "INR", currency)]]

\* a /find that reads the head of the waiting list without removing it
ShiftWaiting_Peek(key) == waitingPlayers

\* waitingList.shift(), deleting the key when the list becomes empty
ShiftWaiting(key) ==
  IF Len(waitingPlayers[key]) = 1
    THEN MapDelete(waitingPlayers, key)
    ELSE MapSet(waitingPlayers, key, Tail(waitingPlayers[key]))

\* the JSON response of POST /find: the player's active match, a new match
\* with the waiting opponent, or a place in the waiting list
FindResponse(playerId, gameType, currency) ==
  LET key == waitingKey(gameType, currency)
  IN IF existingMatch(playerId) # 0
       THEN [matchFound |-> TRUE, matchId |-> existingMatch(playerId)]
     ELSE IF key \in DOMAIN waitingPlayers /\ Len(waitingPlayers[key]) > 0
       THEN [matchFound |-> TRUE, matchId |-> nextMatchId,
             opponent |-> Head(waitingPlayers[key]).id]
     ELSE [matchFound |-> FALSE,
           queuePosition |-> (IF key \in DOMAIN waitingPlayers
                                THEN Len(waitingPlayers[key]) ELSE 0) + 1]

\* POST /find
Find(playerId, gameType, currency) ==
  LET key == waitingKey(gameType, currency)
      existing == existingMatch(playerId)
      hasOpponent == key \in DOMAIN waitingPlayers /\ Len(waitingPlayers[key]) > 0
  IN /\ IF existing # 0
          THEN UNCHANGED <<matchVars, delivered>>
          ELSE IF hasOpponent
            THEN LET opponent == Head(waitingPlayers[key])
                     matchId == nextMatchId
                     match == NewMatch(matchId, gameType, currency, playerId, opponent)
                 IN /\ nextMatchId <= MaxMatches
                    /\ waitingPlayers' = ShiftWaiting(key)
                    /\ activeMatches' = MapSet(activeMatches, matchId, match)
                    /\ nextMatchId' = nextMatchId + 1
                    /\ delivered' = broadcastToMatch(MapSet(activeMatches, matchId, match),
                                                     matchId, "match_found")
                    /\ UNCHANGED matchHistory
            ELSE LET list == IF key \in DOMAIN waitingPlayers
                               THEN waitingPlayers[key] ELSE <<>>
                     pushed == Append(list, [id |-> playerId, timestamp |-> now])
                 IN /\ waitingPlayers' = MapSet(waitingPlayers, key, pushed)
                    /\ UNCHANGED <<activeMatches, matchHistory, nextMatchId, delivered>>
     /\ UNCHANGED <<now, sockets, wdVars, walletVars, batchVars, otpVars>>

\* the comparator reversed: (a, b) => a.score - b.score
sortedPlayers_Ascending(match) ==
  IF match.players[2].score < match.players[1].score
    THEN <<match.players[2], match.players[1]>>
    ELSE match.players

\* [...match.players].sort((a, b) => b.score - a.score): a stable sort of two
sortedPlayers(match) ==
  IF match.players[2].score > match.players[1].score
    THEN <<match.players[2], match.players[1]>>
    ELSE match.players

\* the result object of /:matchId/complete
MatchResult(match) ==
  LET winner == sortedPlayers(match)[1]
      loser == sortedPlayers(match)[2]
  IN IF winner.score = loser.score
       THEN [type |-> "draw", winner |-> NULL,
             payouts |-> <<[playerId |-> winner.id, amount |-> match.betAmount, type |-> "refund"],
                           [playerId |-> loser.id, amount |-> match.betAmount, type |-> "refund"]>>,
             platformEarnings |-> 0]
       ELSE [type |-> "win", winner |-> winner.id,
             winnerScore |-> winner.score, loserScore |-> loser.score,
             payouts |-> <<[playerId |-> winner.id, amount |-> match.payout.winner, type |-> "win"],
                           [playerId |-> loser.id, amount |-> 0, type |-> "loss"]>>,
             platformEarnings |-> match.payout.platform]

\* match.players.findIndex(p => p.id === playerId), 0 for -1
playerIndex(match, playerId) ==
  IF match.players[1].id = playerId THEN 1
  ELSE IF match.players[2].id = playerId THEN 2 ELSE 0

\* Math.max(0, parseInt(score))
StoredScore(score) == IF score < 0 THEN 0 ELSE score

\* the error code of POST /:matchId/score, "OK" when it succeeds
ScoreCode(matchId, playerId) ==
  IF matchId \notin DOMAIN activeMatches THEN "MATCH_NOT_FOUND"
  ELSE IF playerIndex(activeMatches[matchId], playerId) = 0 THEN "PLAYER_NOT_IN_MATCH"
  ELSE "OK"

\* POST /:matchId/score
Score(matchId, playerId, score) ==
  /\ IF ScoreCode(matchId, playerId) # "OK"
       THEN UNCHANGED <<matchVars, delivered>>
       ELSE LET idx == playerIndex(activeMatches[matchId], playerId)
            IN /\ activeMatches' =
                    [activeMatches EXCEPT ![matchId].players[idx].score = StoredScore(score)]
               /\ delivered' = broadcastToMatch(activeMatches', matchId, "score_update")
               /\ UNCHANGED <<waitingPlayers, matchHistory, nextMatchId>>
  /\ UNCHANGED <<now, sockets, wdVars, walletVars, batchVars, otpVars>>

\* the error code of POST /:matchId/complete, "OK" when it succeeds
CompleteCode(matchId) ==
  IF matchId \notin DOMAIN activeMatches THEN "MATCH_NOT_FOUND"
  ELSE IF activeMatches[matchId].status = "completed" THEN "MATCH_ALREADY_COMPLETED"
  ELSE "OK"

\* POST /:matchId/complete
Complete(matchId) ==
  /\ IF CompleteCode(matchId) # "OK"
       THEN UNCHANGED <<matchVars, delivered>>
       ELSE LET match == activeMatches[matchId]
                done == [id |-> match.id, gameType |-> match.gameType,
                         currency |-> match.currency, betAmount |-> match.betAmount,
                         players |-> match.players, status |-> "completed",
                         startTime |-> match.startTime, payout |-> match.payout,
                         endTime |-> now, result |-> MatchResult(match)]
            IN /\ matchHistory' = MapSet(matchHistory, matchId, done)
               /\ activeMatches' = MapDelete(activeMatches, matchId)
               /\ delivered' = broadcastToMatch(MapDelete(activeMatches, matchId),
                                                matchId, "match_completed")
               /\ UNCHANGED <<waitingPlayers, nextMatchId>>
  /\ UNCHANGED <<now, sockets, wdVars, walletVars, batchVars, otpVars>>

\* a cancel that pays nothing back
RefundResult_NoRefund(match) ==
  [type |-> "cancelled",
   payouts |-> [i \in 1..2 |-> [playerId |-> match.players[i].id,
                                amount |-> 0, type |-> "refund"]],
   platformEarnings |-> 0]

\* the refundResult object of /:matchId/cancel
RefundResult(match) ==
  [type |-> "cancelled",
   payouts |-> [i \in 1..2 |-> [playerId |-> match.players[i].id,
                                amount |-> match.betAmount, type |-> "refund"]],
   platformEarnings |-> 0]

\* the error code of POST /:matchId/cancel, "OK" when it succeeds
CancelCode(matchId, playerId) ==
  IF matchId \notin DOMAIN activeMatches THEN "MATCH_NOT_FOUND"
  ELSE IF ~InMatch(activeMatches[matchId], playerId) THEN "PLAYER_NOT_IN_MATCH"
  ELSE "OK"

\* POST /:matchId/cancel
Cancel(matchId, playerId) ==
  /\ IF CancelCode(matchId, playerId) # "OK"
       THEN UNCHANGED <<matchVars, delivered>>
       ELSE LET match == activeMatches[matchId]
                done == [id |-> match.id, gameType |-> match.gameType,
                         currency |-> match.currency, betAmount |-> match.betAmount,
                         players |-> match.players, status |-> "cancelled",
                         startTime |-> match.startTime, payout |-> match.payout,
                         endTime |-> now, cancelledBy |-> playerId,
                         result |-> RefundResult(match)]
            IN /\ matchHistory' = MapSet(matchHistory, matchId, done)
               /\ activeMatches' = MapDelete(activeMatches, matchId)
               /\ delivered' = broadcastToMatch(MapDelete(activeMatches, matchId),
                                                matchId, "match_cancelled")
               /\ UNCHANGED <<waitingPlayers, nextMatchId>>
  /\ UNCHANGED <<now, sockets, wdVars, walletVars, batchVars, otpVars>>

\* the sockets a client can open
Sockets == {"s1", "s2"}

\* wss hands a new connection to handleWebSocket(ws, req): the socket is open
\* and carries neither matchId nor playerId
WsConnect(s) ==
  /\ s \notin DOMAIN sockets
  /\ sockets' = MapSet(sockets, s, [readyState |-> "OPEN", matchId |-> 0, playerId |-> NULL])
  /\ UNCHANGED <<now, matchVars, delivered, wdVars, walletVars, batchVars, otpVars>>

\* ws.on('message') with {type: 'join_match', matchId, playerId}: the socket
\* is attached to the player of an active match and answered with 'joined'
WsJoin(s, matchId, playerId) ==
  /\ s \in DOMAIN sockets
  /\ sockets[s].readyState = "OPEN"
  /\ IF matchId \notin DOMAIN activeMatches
       THEN UNCHANGED <<activeMatches, wsVars>>
       ELSE LET idx == playerIndex(activeMatches[matchId], playerId)
            IN IF idx = 0
                 THEN UNCHANGED <<activeMatches, wsVars>>
                 ELSE /\ activeMatches' = [activeMatches EXCEPT ![matchId].players[idx].ws = s]
                      /\ sockets' = [sockets EXCEPT ![s].matchId = matchId,
                                                    ![s].playerId = playerId]
                      /\ delivered' = delivered \cup {<<s, "joined", matchId>>}
  /\ UNCHANGED <<now, waitingPlayers, matchHistory, nextMatchId,
                 wdVars, walletVars, batchVars, otpVars>>

\* the socket closes, then ws.on('close'): the player of the socket's match,
\* if the match is still active, loses the socket and is 'disconnected'
WsClose(s) ==
  /\ s \in DOMAIN sockets
  /\ sockets[s].readyState = "OPEN"
  /\ sockets' = [sockets EXCEPT ![s].readyState = "CLOSED"]
  /\ LET matchId == sockets[s].matchId
         idx == IF matchId \in DOMAIN activeMatches
                  THEN playerIndex(activeMatches[matchId], sockets[s].playerId)
                  ELSE 0
     IN IF matchId = 0 \/ idx = 0
          THEN UNCHANGED activeMatches
          ELSE activeMatches' = [activeMatches EXCEPT
                                   ![matchId].players[idx].ws = NULL,
                                   ![matchId].players[idx].status = "disconnected"]
  /\ UNCHANGED <<now, waitingPlayers, matchHistory, nextMatchId, delivered,
                 wdVars, walletVars, batchVars, otpVars>>

-----------------------------------------------------------------------------
(* src/withdrawal.js *)

\* WITHDRAWAL_CONFIG.minAmount and .maxAmount, in hundredths
WITHDRAWAL_CONFIG ==
  [minAmount |->
     [INR |-> 10000, USD |-> 500, EUR |-> 500, GBP |-> 400, CNY |-> 3000,
      JPY |-> 50000, KRW |-> 600000, BRL |-> 2500, RUB |-> 35000, AED |-> 1800,
      SAR |-> 1900, CAD |-> 700, AUD |-> 700],
   maxAmount |->
     [INR |-> 20000000, USD |-> 250000, EUR |-> 220000, GBP |-> 190000,
      CNY |-> 1700000, JPY |-> 35000000, KRW |-> 320000000, BRL |-> 1300000,
      RUB |-> 18000000, AED |-> 920000, SAR |-> 940000, CAD |-> 330000,
      AUD |-> 360000],
   \* processingFees, in thousandths
   processingFees |->
     [UPI |-> 0, BankTransfer |-> 0, Cards |-> 20, PIX |-> 10, Alipay |-> 15,
      PayPal |-> 35]]

\* the KYC threshold, 10000 INR, in hundredths
KycLimitINR == 1000000
\* the priority threshold, 50000 INR, in hundredths
HighPriorityINR == 5000000
\* 60 * 60 * 1000 ms, in ticks of one hour
HourTicks == 1

\* request inputs enumerated by the withdrawal specification
Users == {"u1", "u2"}
RequestAmounts == {100, 20000}
RequestCurrencies == {"INR", "USD"}
RequestMethods == {"Cards"}
KycStatuses == {"pending", "verified"}

\* the two objects /request builds for one withdrawal: the one stored in
\* withdrawalRequests and the spread copy stored in processingQueue.  Of
\* their fields the model keeps those a handler reads or a claim names; the
\* masked details, hashes, display strings and queuePosition are left out.
RequestObj(id) == <<id, "request">>
QueuedObj(id) == <<id, "queued">>

\* withdrawal.status = value, remembering every value assigned
SetStatus(obj, value) ==
  [obj EXCEPT !.status = value, !.statusLog = Append(@, value)]

\* Math.round(amount * feeRate * 100) / 100
processingFee(amount, method) ==
  MathRound(amount * WITHDRAWAL_CONFIG.processingFees[method], 1000)

\* withdrawals of the user in withdrawalRequests that are less than an hour
\* old and not cancelled
recentRequests(userId) ==
  {id \in DOMAIN withdrawalRequests :
     LET w == wdObjects[withdrawalRequests[id]]
     IN /\ w.userId = userId
        /\ w.timestamp > now - HourTicks
        /\ w.status # "cancelled"}

\* the error code of POST /request, "OK" when the withdrawal is created
RequestCode(userId, amount, currency, detailsValid, kycStatus) ==
  IF amount < WITHDRAWAL_CONFIG.minAmount[currency]
     \/ amount > WITHDRAWAL_CONFIG.maxAmount[currency]
    THEN "AMOUNT_OUT_OF_RANGE"
  ELSE IF convertCurrency(amount, currency, "INR") > KycLimitINR /\ kycStatus # "verified"
    THEN "KYC_REQUIRED"
  ELSE IF ~detailsValid THEN "INVALID_WITHDRAWAL_DETAILS"
  ELSE IF Cardinality(recentRequests(userId)) >= 2 THEN "WITHDRAWAL_FREQUENCY_EXCEEDED"
  ELSE "OK"

\* POST /request
Request(userId, amount, currency, method, detailsValid, kycStatus) ==
  LET amountInINR == convertCurrency(amount, currency, "INR")
      withdrawalId == nextWithdrawalId
      fee == processingFee(amount, method)
      withdrawalRequest ==
        [id |-> withdrawalId, userId |-> userId, amount |-> amount,
         netAmount |-> amount - fee, processingFee |-> fee,
         currency |-> currency, withdrawalMethod |-> method,
         status |-> "pending_approval", statusLog |-> <<"pending_approval">>,
         kycStatus |-> kycStatus, timestamp |-> now]
      queued ==
        [id |-> withdrawalId, userId |-> userId, amount |-> amount,
         netAmount |-> amount - fee, processingFee |-> fee,
         currency |-> currency, withdrawalMethod |-> method,
         status |-> "pending_approval", statusLog |-> <<"pending_approval">>,
         kycStatus |-> kycStatus, timestamp |-> now,
         priority |-> IF amountInINR > HighPriorityINR THEN "high" ELSE "normal"]
  IN /\ IF RequestCode(userId, amount, currency, detailsValid, kycStatus) # "OK"
          THEN UNCHANGED wdVars
          ELSE /\ nextWithdrawalId <= MaxWithdrawals
               /\ wdObjects' = MapSet(MapSet(wdObjects, RequestObj(withdrawalId), withdrawalRequest),
                                      QueuedObj(withdrawalId), queued)
               /\ withdrawalRequests' = MapSet(withdrawalRequests, withdrawalId, RequestObj(withdrawalId))
               /\ processingQueue' = MapSet(processingQueue, withdrawalId, QueuedObj(withdrawalId))
               /\ nextWithdrawalId' = nextWithdrawalId + 1
               /\ UNCHANGED <<completedWithdrawals, gatewayTimers>>
     /\ UNCHANGED <<now, matchVars, wsVars, walletVars, batchVars, otpVars>>

\* a cancel that accepts a withdrawal in any status
CanCancel_Always(status) == TRUE

\* the statuses in which /:withdrawalId/cancel accepts a withdrawal
CanCancel(status) == status \in {"pending_approval", "approved"}

\* withdrawalRequests.get(id) || processingQueue.get(id), as an object
\* reference; only called when one of the maps has the id
lookupForCancel(withdrawalId) ==
  IF withdrawalId \in DOMAIN withdrawalRequests
    THEN withdrawalRequests[withdrawalId]
    ELSE processingQueue[withdrawalId]

\* the error code of POST /:withdrawalId/cancel, "OK" when it succeeds
CancelWithdrawalCode(withdrawalId, userId) ==
  IF withdrawalId \notin DOMAIN withdrawalRequests
     /\ withdrawalId \notin DOMAIN processingQueue
    THEN "WITHDRAWAL_NOT_FOUND"
  ELSE IF wdObjects[lookupForCancel(withdrawalId)].userId # userId
    THEN "UNAUTHORIZED_CANCELLATION"
  ELSE IF ~CanCancel(wdObjects[lookupForCancel(withdrawalId)].status)
    THEN "CANCELLATION_NOT_ALLOWED"
  ELSE "OK"

\* POST /:withdrawalId/cancel
CancelWithdrawal(withdrawalId, userId) ==
  /\ IF CancelWithdrawalCode(withdrawalId, userId) # "OK"
       THEN UNCHANGED wdVars
       ELSE LET ref == lookupForCancel(withdrawalId)
            IN /\ wdObjects' = [wdObjects EXCEPT ![ref] = SetStatus(@, "cancelled")]
               /\ processingQueue' = MapDelete(processingQueue, withdrawalId)
               /\ withdrawalRequests' = MapDelete(withdrawalRequests, withdrawalId)
               /\ completedWithdrawals' = MapSet(completedWithdrawals, withdrawalId, ref)
               /\ UNCHANGED <<gatewayTimers, nextWithdrawalId>>
  /\ UNCHANGED <<now, matchVars, wsVars, walletVars, batchVars, otpVars>>

\* POST /admin/:withdrawalId/approve, with the synchronous part of
\* processPayment: status approved, then processing, and the 10 s timer set
Approve(withdrawalId) ==
  /\ IF withdrawalId \notin DOMAIN processingQueue
       THEN UNCHANGED wdVars
       ELSE LET ref == processingQueue[withdrawalId]
            IN /\ wdObjects' = [wdObjects EXCEPT
                                  ![ref] = SetStatus(SetStatus(@, "approved"), "processing")]
               /\ processingQueue' = MapDelete(processingQueue, withdrawalId)
               /\ withdrawalRequests' = MapSet(withdrawalRequests, withdrawalId, ref)
               /\ gatewayTimers' = gatewayTimers \cup {ref}
               /\ UNCHANGED <<completedWithdrawals, nextWithdrawalId>>
  /\ UNCHANGED <<now, matchVars, wsVars, walletVars, batchVars, otpVars>>

\* a gateway failure that leaves the status as it was
FinalStatus_FailureIgnored(isSuccess) == IF isSuccess THEN "completed" ELSE "processing"

\* the status the gateway callback assigns
FinalStatus(isSuccess) == IF isSuccess THEN "completed" ELSE "failed"

\* the setTimeout callback of processPayment; isSuccess is Math.random() > 0.1
GatewayCallback(ref, isSuccess) ==
  /\ ref \in gatewayTimers
  /\ gatewayTimers' = gatewayTimers \ {ref}
  /\ wdObjects' = [wdObjects EXCEPT ![ref] = SetStatus(@, FinalStatus(isSuccess))]
  /\ withdrawalRequests' = MapDelete(withdrawalRequests, wdObjects[ref].id)
  /\ completedWithdrawals' = MapSet(completedWithdrawals, wdObjects[ref].id, ref)
  /\ UNCHANGED <<processingQueue, nextWithdrawalId>>
  /\ UNCHANGED <<now, matchVars, wsVars, walletVars, batchVars, otpVars>>

\* an hour passes; a 10 s gateway timer has fired by then
Tick ==
  /\ now < MaxTime
  /\ gatewayTimers = {}
  /\ now' = now + 1
  /\ UNCHANGED <<matchVars, wsVars, wdVars, walletVars, batchVars, otpVars>>

-----------------------------------------------------------------------------
(* src/wallet.js *)

\* PAYMENT_GATEWAYS in Object.entries order; limits in hundredths, fees in
\* thousandths
PAYMENT_GATEWAYS ==
  <<[id |-> "razorpay", currencies |-> {"INR"},
     methods |-> {"UPI", "Cards", "NetBanking", "Wallets"},
     minDeposit |-> 1000, maxDeposit |-> 10000000, fees |-> 20],
    [id |-> "stripe", currencies |-> {"USD", "EUR", "GBP", "CAD", "AUD"},
     methods |-> {"Cards", "Digital Wallets"},
     minDeposit |-> 100, maxDeposit |-> 5000000, fees |-> 29],
    [id |-> "alipay", currencies |-> {"CNY"},
     methods |-> {"Alipay", "WeChat Pay"},
     minDeposit |-> 1000, maxDeposit |-> 5000000, fees |-> 15],
    [id |-> "pix", currencies |-> {"BRL"},
     methods |-> {"PIX", "Credit Cards"},
     minDeposit |-> 500, maxDeposit |-> 2500000, fees |-> 10]>>

\* request inputs enumerated by the wallet specification
WalletCurrencies == {"INR", "USD"}
DepositAmounts == {200, 100000}
DepositMethods == {"UPI", "Cards"}
WithdrawAmounts == {5000, 100000}
NoCurrency == "none"
WinAmounts == {1600}
PlatformFees == {400}

createWallet(userId, currency) ==
  [userId |-> userId, balance |-> 0, currency |-> currency,
   totalDeposits |-> 0, totalWithdrawals |-> 0, totalWinnings |-> 0,
   kycStatus |-> "pending"]

\* a handler that builds a new wallet for every request
walletFor_AlwaysNew(userId, currency) == createWallet(userId, currency)

\* let wallet = userWallets.get(userId); if (!wallet) wallet = createWallet(...)
walletFor(userId, currency) ==
  IF userId \in DOMAIN userWallets
    THEN userWallets[userId]
    ELSE createWallet(userId, currency)

\* a KYC check that lets every amount through
validateKYC_Always(amount, currency, kycStatus) == TRUE

validateKYC(amount, currency, kycStatus) ==
  ~(convertCurrency(amount, currency, "INR") > KycLimitINR /\ kycStatus # "verified")

\* the wallet info GET /:userId returns
GetWalletResponse(userId, currency) ==
  LET wallet == walletFor(userId, currency)
  IN [userId |-> wallet.userId,
      balance |-> IF wallet.currency = currency
                    THEN wallet.balance
                    ELSE convertCurrency(wallet.balance, wallet.currency, currency),
      currency |-> currency,
      nativeBalance |-> wallet.balance,
      nativeCurrency |-> wallet.currency]

\* GET /:userId?currency=
GetWallet(userId, currency) ==
  /\ userWallets' = MapSet(userWallets, userId, walletFor(userId, currency))
  /\ walletInfo' = <<GetWalletResponse(userId, currency)>>
  /\ UNCHANGED <<transactions, pendingWithdrawals, developerWallet, depositTimers, nextTxnId>>
  /\ UNCHANGED <<now, matchVars, wsVars, wdVars, batchVars, otpVars>>

\* the first gateway for the currency and payment method, 0 when there is none
depositGateway(currency, paymentMethod) ==
  LET found == {i \in 1..Len(PAYMENT_GATEWAYS) :
                  /\ currency \in PAYMENT_GATEWAYS[i].currencies
                  /\ paymentMethod \in PAYMENT_GATEWAYS[i].methods}
  IN IF found = {} THEN 0 ELSE CHOOSE i \in found : \A j \in found : i <= j

\* the first gateway for the currency, 0 when there is none
withdrawGateway(currency) ==
  LET found == {i \in 1..Len(PAYMENT_GATEWAYS) :
                  currency \in PAYMENT_GATEWAYS[i].currencies}
  IN IF found = {} THEN 0 ELSE CHOOSE i \in found : \A j \in found : i <= j

\* Math.round(amount * gateway.fees * 100) / 100
gatewayFees(amount, gateway) == MathRound(amount * PAYMENT_GATEWAYS[gateway].fees, 1000)

\* the error code of POST /deposit, "OK" when the deposit is initiated
DepositCode(amount, currency, paymentMethod) ==
  LET gateway == depositGateway(currency, paymentMethod)
  IN IF gateway = 0 THEN "PAYMENT_METHOD_NOT_SUPPORTED"
     ELSE IF amount < PAYMENT_GATEWAYS[gateway].minDeposit
             \/ amount > PAYMENT_GATEWAYS[gateway].maxDeposit
       THEN "AMOUNT_OUT_OF_RANGE"
     ELSE "OK"

\* POST /deposit: the wallet is created before anything is validated
Deposit(userId, amount, currency, paymentMethod) ==
  LET gateway == depositGateway(currency, paymentMethod)
      fees == gatewayFees(amount, gateway)
      transactionId == nextTxnId
      transaction ==
        [id |-> transactionId, userId |-> userId, type |-> "deposit",
         amount |-> amount, netAmount |-> amount - fees, currency |-> currency,
         fees |-> fees, gateway |-> PAYMENT_GATEWAYS[gateway].id,
         status |-> "processing"]
  IN /\ userWallets' = MapSet(userWallets, userId, walletFor(userId, currency))
     /\ IF DepositCode(amount, currency, paymentMethod) # "OK"
          THEN UNCHANGED <<transactions, depositTimers, nextTxnId>>
          ELSE /\ nextTxnId <= MaxTxns
               /\ transactions' = MapSet(transactions, transactionId, transaction)
               /\ depositTimers' = depositTimers \cup {transactionId}
               /\ nextTxnId' = nextTxnId + 1
     /\ UNCHANGED <<pendingWithdrawals, developerWallet, walletInfo>>
     /\ UNCHANGED <<now, matchVars, wsVars, wdVars, batchVars, otpVars>>

\* the setTimeout callback of /deposit: timers of equal delay fire in the
\* order they were set
DepositCallback(transactionId) ==
  /\ transactionId \in depositTimers
  /\ \A t \in depositTimers : transactionId <= t
  /\ LET transaction == transactions[transactionId]
         wallet == userWallets[transaction.userId]
         walletAmount == IF transaction.currency = wallet.currency
                           THEN transaction.netAmount
                           ELSE convertCurrency(transaction.netAmount,
                                                transaction.currency, wallet.currency)
     IN /\ transactions' = [transactions EXCEPT ![transactionId].status = "completed"]
        /\ userWallets' = [userWallets EXCEPT
                             ![transaction.userId].balance = @ + walletAmount,
                             ![transaction.userId].totalDeposits = @ + walletAmount]
  /\ depositTimers' = depositTimers \ {transactionId}
  /\ UNCHANGED <<pendingWithdrawals, developerWallet, nextTxnId, walletInfo>>
  /\ UNCHANGED <<now, matchVars, wsVars, wdVars, batchVars, otpVars>>

\* const withdrawCurrency = currency || wallet.currency
withdrawCurrencyOf(currency, wallet) ==
  IF currency = NoCurrency THEN wallet.currency ELSE currency

\* the amount in the wallet's native currency
walletAmountOf(amount, currency, wallet) ==
  IF currency = wallet.currency THEN amount
  ELSE convertCurrency(amount, currency, wallet.currency)

\* a withdraw without the balance check
insufficientBalance_Unchecked(wallet, walletAmount) == FALSE

\* if (wallet.balance < walletAmount)
insufficientBalance(wallet, walletAmount) == wallet.balance < walletAmount

\* the error code of POST /withdraw, "OK" when the withdrawal is accepted
WithdrawCode(userId, amount, currency) ==
  IF userId \notin DOMAIN userWallets THEN "WALLET_NOT_FOUND"
  ELSE LET wallet == userWallets[userId]
           withdrawCurrency == withdrawCurrencyOf(currency, wallet)
       IN IF insufficientBalance(wallet, walletAmountOf(amount, withdrawCurrency, wallet))
            THEN "INSUFFICIENT_BALANCE"
          ELSE IF ~validateKYC(amount, withdrawCurrency, wallet.kycStatus)
            THEN "KYC_REQUIRED"
          ELSE IF withdrawGateway(withdrawCurrency) = 0
            THEN "WITHDRAWAL_NOT_SUPPORTED"
          ELSE "OK"

\* POST /withdraw
Withdraw(userId, amount, currency) ==
  /\ IF WithdrawCode(userId, amount, currency) # "OK"
       THEN UNCHANGED <<userWallets, transactions, pendingWithdrawals, nextTxnId>>
       ELSE LET wallet == userWallets[userId]
                withdrawCurrency == withdrawCurrencyOf(currency, wallet)
                walletAmount == walletAmountOf(amount, withdrawCurrency, wallet)
                gateway == withdrawGateway(withdrawCurrency)
                fees == gatewayFees(amount, gateway)
                transactionId == nextTxnId
                withdrawal ==
                  [id |-> transactionId, userId |-> userId, type |-> "withdrawal",
                   amount |-> amount, netAmount |-> amount - fees,
                   currency |-> withdrawCurrency, fees |-> fees,
                   gateway |-> PAYMENT_GATEWAYS[gateway].id, status |-> "pending"]
            IN /\ nextTxnId <= MaxTxns
               /\ transactions' = MapSet(transactions, transactionId, withdrawal)
               /\ pendingWithdrawals' = MapSet(pendingWithdrawals, transactionId, withdrawal)
               /\ userWallets' = [userWallets EXCEPT ![userId].balance = @ - walletAmount]
               /\ nextTxnId' = nextTxnId + 1
  /\ UNCHANGED <<developerWallet, depositTimers, walletInfo>>
  /\ UNCHANGED <<now, matchVars, wsVars, wdVars, batchVars, otpVars>>

\* POST /process-winnings
ProcessWinnings(winner, amount, currency, platformFee) ==
  LET winnerWallet == walletFor(winner, currency)
      walletAmount == walletAmountOf(amount, currency, winnerWallet)
      transactionId == nextTxnId
      winTransaction ==
        [id |-> transactionId, userId |-> winner, type |-> "win",
         amount |-> walletAmount, currency |-> winnerWallet.currency,
         status |-> "completed"]
      developerFeeINR == convertCurrency(platformFee, currency, "INR")
  IN /\ nextTxnId <= MaxTxns
     /\ userWallets' = MapSet(userWallets, winner,
                              [winnerWallet EXCEPT !.balance = @ + walletAmount,
                                                   !.totalWinnings = @ + walletAmount])
     /\ transactions' = MapSet(transactions, transactionId, winTransaction)
     /\ developerWallet' = [developerWallet EXCEPT !.balance = @ + developerFeeINR,
                                                   !.totalEarnings = @ + developerFeeINR]
     /\ nextTxnId' = nextTxnId + 1
     /\ UNCHANGED <<pendingWithdrawals, depositTimers, walletInfo>>
     /\ UNCHANGED <<now, matchVars, wsVars, wdVars, batchVars, otpVars>>

-----------------------------------------------------------------------------
(* src/index.js, the withdrawal processing script *)

\* amounts in hundredths, gateway delays in milliseconds
PROCESSING_CONFIG ==
  [batchSize |-> 100,
   maxRetries |-> 3,
   timeoutMs |-> 30000,
   minAmount |-> [INR |-> 10000, USD |-> 500, EUR |-> 500],
   maxAmount |-> [INR |-> 20000000, USD |-> 250000, EUR |-> 220000]]

\* the setTimeout delay of each mock gateway's processWithdrawal
BATCH_GATEWAYS == [razorpay |-> 2000, stripe |-> 3000, paypal |-> 1500]

mockWithdrawals ==
  <<[id |-> "wd_1234567890ab", userId |-> "user_001", amount |-> 50000,
     currency |-> "INR", status |-> "approved", gateway |-> "razorpay",
     retryCount |-> 0],
    [id |-> "wd_2345678901bc", userId |-> "user_002", amount |-> 2500,
     currency |-> "USD", status |-> "approved", gateway |-> "paypal",
     retryCount |-> 0],
    [id |-> "wd_3456789012cd", userId |-> "user_003", amount |-> 100000,
     currency |-> "INR", status |-> "approved", gateway |-> "razorpay",
     retryCount |-> 1]>>

WithdrawalQueueIds == {mockWithdrawals[i].id : i \in DOMAIN mockWithdrawals}

\* the filter of loadWithdrawalQueue
loadable(w) == w.status = "approved"

\* mockWithdrawals.filter(w => w.status === 'approved'): the list is built
\* anew on every call
loadWithdrawalQueue == SelectSeq(mockWithdrawals, loadable)

\* the catch block of processWithdrawal
FailAttempt(w) ==
  LET retryCount == w.retryCount + 1
  IN [w EXCEPT !.retryCount = retryCount,
               !.status = IF retryCount < PROCESSING_CONFIG.maxRetries
                            THEN "retry_scheduled"
                            ELSE "failed"]

\* processWithdrawal up to its first await: the checks and the switch to
\* processing
BeginProcessing(w) ==
  IF \/ w.currency \notin DOMAIN PROCESSING_CONFIG.minAmount
     \/ w.amount < PROCESSING_CONFIG.minAmount[w.currency]
     \/ w.amount > PROCESSING_CONFIG.maxAmount[w.currency]
     \/ w.gateway \notin DOMAIN BATCH_GATEWAYS
    THEN FailAttempt(w)
    ELSE [w EXCEPT !.status = "processing"]

\* a scheduled run of the script: processWithdrawals loads the queue
StartBatchRun ==
  /\ batchPc \in {"idle", "done"}
  /\ batchQueue' = loadWithdrawalQueue
  /\ batchPc' = IF loadWithdrawalQueue = <<>> THEN "done" ELSE "loaded"
  /\ UNCHANGED failedAttempts
  /\ UNCHANGED <<now, matchVars, wsVars, wdVars, walletVars, otpVars>>

\* batch.map(withdrawal => processWithdrawal(withdrawal)): every withdrawal
\* of the batch runs up to its gateway call
ProcessBatch ==
  /\ batchPc = "loaded"
  /\ batchQueue' = [i \in DOMAIN batchQueue |-> BeginProcessing(batchQueue[i])]
  /\ batchPc' = "processing"
  /\ UNCHANGED failedAttempts
  /\ UNCHANGED <<now, matchVars, wsVars, wdVars, walletVars, otpVars>>

\* the withdrawal whose gateway timer fires next: the shortest delay first,
\* equal delays in the order the timers were set
nextGatewayReply(i) ==
  /\ batchQueue[i].status = "processing"
  /\ \A j \in DOMAIN batchQueue :
       batchQueue[j].status = "processing" =>
         \/ BATCH_GATEWAYS[batchQueue[i].gateway] < BATCH_GATEWAYS[batchQueue[j].gateway]
         \/ /\ BATCH_GATEWAYS[batchQueue[i].gateway] = BATCH_GATEWAYS[batchQueue[j].gateway]
            /\ i <= j

\* the gateway resolves: the withdrawal is completed
GatewaySuccess(i) ==
  /\ batchPc = "processing"
  /\ i \in DOMAIN batchQueue
  /\ nextGatewayReply(i)
  /\ batchQueue' = [batchQueue EXCEPT ![i].status = "completed"]
  /\ UNCHANGED <<batchPc, failedAttempts>>
  /\ UNCHANGED <<now, matchVars, wsVars, wdVars, walletVars, otpVars>>

\* the gateway rejects: the catch block counts the attempt and schedules a
\* retry or gives up
GatewayFailure(i) ==
  /\ batchPc = "processing"
  /\ i \in DOMAIN batchQueue
  /\ nextGatewayReply(i)
  /\ failedAttempts[batchQueue[i].id] < MaxAttempts
  /\ batchQueue' = [batchQueue EXCEPT ![i] = FailAttempt(@)]
  /\ failedAttempts' = [failedAttempts EXCEPT ![batchQueue[i].id] = @ + 1]
  /\ UNCHANGED batchPc
  /\ UNCHANGED <<now, matchVars, wsVars, wdVars, walletVars, otpVars>>

\* Promise.allSettled has every result: the report is printed and the
\* process exits
FinishBatchRun ==
  /\ batchPc = "processing"
  /\ \A i \in DOMAIN batchQueue : batchQueue[i].status # "processing"
  /\ batchPc' = "done"
  /\ UNCHANGED <<batchQueue, failedAttempts>>
  /\ UNCHANGED <<now, matchVars, wsVars, wdVars, walletVars, otpVars>>

-----------------------------------------------------------------------------
(* src/flutter-backend.js, the OTP login *)

\* 5 * 60 * 1000 ms, in minutes
OtpExpiry == 5
\* storedOtpData.attempts >= 3
OtpMaxAttempts == 3

\* request inputs enumerated by the OTP specification; the OTP issued is
\* '123456' outside production and a random six-digit string in production
Mobiles == {"m1", "m2"}
Devices == {"d1", "d2"}
OtpCodes == {"123456", "654321"}

\* POST /auth/mobile-login: a new OTP replaces the one stored for the mobile
MobileLogin(mobile, deviceId, otp) ==
  /\ flutterOtpStore' = MapSet(flutterOtpStore, mobile,
                               [mobile |-> mobile, otp |-> otp, deviceId |-> deviceId,
                                timestamp |-> otpNow, attempts |-> 0])
  /\ UNCHANGED <<otpNow, verifyResponse>>
  /\ UNCHANGED <<now, matchVars, wsVars, wdVars, walletVars, batchVars>>

\* a verification that never runs out of attempts
attemptsExceeded_Never(attempts) == FALSE

\* if (storedOtpData.attempts >= 3), after the increment
attemptsExceeded(attempts) == attempts >= OtpMaxAttempts

\* a verification that accepts an OTP of any age
otpExpired_Never(timestamp) == FALSE

\* if (Date.now() - storedOtpData.timestamp > 5 * 60 * 1000)
otpExpired(timestamp) == otpNow - timestamp > OtpExpiry

\* the code of the /auth/verify-mobile response, "OK" when the user is
\* authenticated
VerifyCode(mobile, otp, deviceId) ==
  IF mobile \notin DOMAIN flutterOtpStore THEN "OTP_NOT_FOUND"
  ELSE LET storedOtpData == flutterOtpStore[mobile]
       IN IF storedOtpData.deviceId # deviceId THEN "DEVICE_MISMATCH"
          ELSE IF storedOtpData.otp # otp
            THEN IF attemptsExceeded(storedOtpData.attempts + 1)
                   THEN "OTP_ATTEMPTS_EXCEEDED"
                   ELSE "INVALID_OTP"
          ELSE IF otpExpired(storedOtpData.timestamp) THEN "OTP_EXPIRED"
          ELSE "OK"

\* POST /auth/verify-mobile
VerifyMobile(mobile, otp, deviceId) ==
  LET code == VerifyCode(mobile, otp, deviceId)
  IN /\ flutterOtpStore' =
          IF code \in {"OTP_NOT_FOUND", "DEVICE_MISMATCH"} THEN flutterOtpStore
          ELSE IF code = "INVALID_OTP"
            THEN [flutterOtpStore EXCEPT ![mobile].attempts = @ + 1]
          ELSE MapDelete(flutterOtpStore, mobile)
     /\ verifyResponse' = [mobile |-> mobile, code |-> code]
     /\ UNCHANGED otpNow
     /\ UNCHANGED <<now, matchVars, wsVars, wdVars, walletVars, batchVars>>

\* a minute passes
OtpTick ==
  /\ otpNow < MaxOtpTime
  /\ otpNow' = otpNow + 1
  /\ UNCHANGED <<flutterOtpStore, verifyResponse>>
  /\ UNCHANGED <<now, matchVars, wsVars, wdVars, walletVars, batchVars>>

-----------------------------------------------------------------------------
(* Initial state: the module-level maps and objects as constructed *)

Init ==
  /\ now = 0
  /\ activeMatches = EmptyMap
  /\ waitingPlayers = EmptyMap
  /\ matchHistory = EmptyMap
  /\ nextMatchId = 1
  /\ withdrawalRequests = EmptyMap
  /\ processingQueue = EmptyMap
  /\ completedWithdrawals = EmptyMap
  /\ wdObjects = EmptyMap
  /\ gatewayTimers = {}
  /\ nextWithdrawalId = 1
  /\ userWallets = EmptyMap
  /\ transactions = EmptyMap
  /\ pendingWithdrawals = EmptyMap
  /\ developerWallet = [balance |-> 4528000, currency |-> "INR", totalEarnings |-> 12584000]
  /\ depositTimers = {}
  /\ nextTxnId = 1
  /\ walletInfo = <<>>
  /\ batchQueue = <<>>
  /\ batchPc = "idle"
  /\ failedAttempts = [id \in WithdrawalQueueIds |-> 0]
  /\ sockets = EmptyMap
  /\ delivered = {}
  /\ flutterOtpStore = EmptyMap
  /\ otpNow = 0
  /\ verifyResponse = [mobile |-> NULL, code |-> NULL]

-----------------------------------------------------------------------------
(* The match system: requests of any player, in any order.  No handler of *)
(* match.js branches on Date.now(), so the clock stands still here.      *)

MatchIds == 1..MaxMatches

NextMatch ==
  \/ \E p \in Players, f \in FindRequests : Find(p, f[1], f[2])
  \/ \E m \in MatchIds, p \in Players, s \in ScoreInputs : Score(m, p, s)
  \/ \E m \in MatchIds : Complete(m)
  \/ \E m \in MatchIds, p \in Players : Cancel(m, p)

SpecMatch == Init /\ [][NextMatch]_vars

-----------------------------------------------------------------------------
(* The match system with its WebSocket clients: chess in INR, the find,   *)
(* complete and cancel requests and the connections, join_match messages  *)
(* and closes of the clients' sockets, in any order.                      *)

WsFindRequests == {<<"chess", "INR">>}
NextMatchWs ==
  \/ \E p \in Players, f \in WsFindRequests : Find(p, f[1], f[2])
  \/ \E m \in MatchIds : Complete(m)
  \/ \E m \in MatchIds, p \in Players : Cancel(m, p)
  \/ \E s \in Sockets : WsConnect(s)
  \/ \E s \in Sockets, m \in MatchIds, p \in Players : WsJoin(s, m, p)
  \/ \E s \in Sockets : WsClose(s)

SpecMatchWs == Init /\ [][NextMatchWs]_vars

-----------------------------------------------------------------------------
(* The withdrawal system: requests of users, the admin, the gateway timer *)

WithdrawalIds == 1..MaxWithdrawals
WithdrawalObjs == {RequestObj(id) : id \in WithdrawalIds} \cup {QueuedObj(id) : id \in WithdrawalIds}

NextWithdrawal ==
  \/ \E u \in Users, a \in RequestAmounts, c \in RequestCurrencies,
        m \in RequestMethods, v \in BOOLEAN, k \in KycStatuses :
        Request(u, a, c, m, v, k)
  \/ \E id \in WithdrawalIds, u \in Users : CancelWithdrawal(id, u)
  \/ \E id \in WithdrawalIds : Approve(id)
  \/ \E ref \in WithdrawalObjs, ok \in BOOLEAN : GatewayCallback(ref, ok)
  \/ Tick

SpecWithdrawal == Init /\ [][NextWithdrawal]_vars

\* the event loop runs every pending timer callback
FairSpecWithdrawal ==
  SpecWithdrawal /\ \A ref \in WithdrawalObjs : WF_vars(\E ok \in BOOLEAN : GatewayCallback(ref, ok))

-----------------------------------------------------------------------------
(* The wallet system: requests of any user and the deposit timers *)

TxnIds == 1..MaxTxns

NextWallet ==
  \/ \E u \in Users, c \in WalletCurrencies : GetWallet(u, c)
  \/ \E u \in Users, a \in DepositAmounts, c \in WalletCurrencies, m \in DepositMethods :
        Deposit(u, a, c, m)
  \/ \E t \in TxnIds : DepositCallback(t)
  \/ \E u \in Users, a \in WithdrawAmounts, c \in WalletCurrencies \cup {NoCurrency} :
        Withdraw(u, a, c)
  \/ \E u \in Users, a \in WinAmounts, c \in WalletCurrencies, f \in PlatformFees :
        ProcessWinnings(u, a, c, f)

SpecWallet == Init /\ [][NextWallet]_vars

-----------------------------------------------------------------------------
(* The withdrawal processing script, run after run *)

BatchIndexes == 1..Len(mockWithdrawals)

NextBatch ==
  \/ StartBatchRun
  \/ ProcessBatch
  \/ \E i \in BatchIndexes : GatewaySuccess(i)
  \/ \E i \in BatchIndexes : GatewayFailure(i)
  \/ FinishBatchRun

SpecBatch == Init /\ [][NextBatch]_vars

-----------------------------------------------------------------------------
(* Both withdrawal entry points for one user: the wallet's deposit and
   withdraw handlers and the withdrawal request handler *)

KycUsers == {"u1"}
KycRequestAmounts == {20000, 300000}

NextKyc ==
  \/ \E u \in KycUsers, a \in DepositAmounts, c \in WalletCurrencies, m \in DepositMethods :
        Deposit(u, a, c, m)
  \/ \E t \in TxnIds : DepositCallback(t)
  \/ \E u \in KycUsers, a \in WithdrawAmounts, c \in WalletCurrencies \cup {NoCurrency} :
        Withdraw(u, a, c)
  \/ \E u \in KycUsers, a \in KycRequestAmounts, c \in RequestCurrencies,
        m \in RequestMethods, dv \in BOOLEAN, k \in KycStatuses :
        Request(u, a, c, m, dv, k)

SpecKyc == Init /\ [][NextKyc]_vars

-----------------------------------------------------------------------------
(* One user's wallet next to the same user's withdrawal requests, their
   approval and the gateway callback *)

RefundUsers == {"u1"}
RefundCurrencies == {"INR"}
RefundRequestAmounts == {20000}

NextRefund ==
  \/ \E u \in RefundUsers, a \in DepositAmounts, c \in RefundCurrencies, m \in DepositMethods :
        Deposit(u, a, c, m)
  \/ \E t \in TxnIds : DepositCallback(t)
  \/ \E u \in RefundUsers, a \in WithdrawAmounts : Withdraw(u, a, NoCurrency)
  \/ \E u \in RefundUsers, a \in RefundRequestAmounts, c \in RefundCurrencies,
        m \in RequestMethods, k \in KycStatuses :
        Request(u, a, c, m, TRUE, k)
  \/ \E id \in WithdrawalIds : Approve(id)
  \/ \E ref \in WithdrawalObjs, ok \in BOOLEAN : GatewayCallback(ref, ok)

SpecRefund == Init /\ [][NextRefund]_vars

-----------------------------------------------------------------------------
(* The OTP login: logins and verifications of any mobile from any device *)

NextOtp ==
  \/ \E m \in Mobiles, d \in Devices, o \in OtpCodes : MobileLogin(m, d, o)
  \/ \E m \in Mobiles, o \in OtpCodes, d \in Devices : VerifyMobile(m, o, d)
  \/ OtpTick

SpecOtp == Init /\ [][NextOtp]_vars

-----------------------------------------------------------------------------
(* Claims about the match system *)

\* C2: for every match created by find, winner payout + platform share
\* equals the pooled bets, 2 x betAmount, all three as converted and rounded
\* for the match currency.
C2_PayoutSplitsPool ==
  \A m \in DOMAIN activeMatches :
    activeMatches[m].payout.winner + activeMatches[m].payout.platform
      = 2 * activeMatches[m].betAmount

\* C3: on complete, the player with the strictly higher score is recorded
\* as the winner and is paid the winner payout, the other player is paid 0;
\* equal scores give a draw with no winner.
C3_HigherScoreWins ==
  \A m \in DOMAIN matchHistory :
    LET h == matchHistory[m]
        a == h.players[1]
        b == h.players[2]
        paid(w, l) ==
          /\ h.result.type = "win"
          /\ h.result.winner = w.id
          /\ h.result.payouts =
               <<[playerId |-> w.id, amount |-> h.payout.winner, type |-> "win"],
                 [playerId |-> l.id, amount |-> 0, type |-> "loss"]>>
    IN h.status = "completed" =>
         /\ a.score > b.score => paid(a, b)
         /\ b.score > a.score => paid(b, a)
         /\ a.score = b.score => h.result.type = "draw" /\ h.result.winner = NULL

\* C3 witness: a completed match won by the second entry of match.players,
\* the one the sort has to move to the front.
C3_Witness ==
  \E m \in DOMAIN matchHistory :
    /\ matchHistory[m].status = "completed"
    /\ matchHistory[m].players[2].score > matchHistory[m].players[1].score
    /\ matchHistory[m].players[1].id # matchHistory[m].players[2].id
    /\ matchHistory[m].result.winner = matchHistory[m].players[2].id

\* C4: a find that gets paired takes the head of the waiting list of its
\* queue (the entry that joined first), removes exactly that entry, and
\* leaves the rest of that list and every other list as they were.
C4_FifoPairing ==
  [][nextMatchId' = nextMatchId + 1 =>
       LET match == activeMatches'[nextMatchId]
           key == <<match.gameType, match.currency>>
       IN /\ key \in DOMAIN waitingPlayers
          /\ match.players[2].id = Head(waitingPlayers[key]).id
          /\ \A i \in 1..Len(waitingPlayers[key]) :
               Head(waitingPlayers[key]).timestamp <= waitingPlayers[key][i].timestamp
          /\ IF Len(waitingPlayers[key]) = 1
               THEN key \notin DOMAIN waitingPlayers'
               ELSE /\ key \in DOMAIN waitingPlayers'
                    /\ waitingPlayers'[key] = Tail(waitingPlayers[key])
          /\ \A k \in DOMAIN waitingPlayers \ {key} :
               k \in DOMAIN waitingPlayers' /\ waitingPlayers'[k] = waitingPlayers[k]
          /\ DOMAIN waitingPlayers' \subseteq DOMAIN waitingPlayers
     ]_vars

\* C4 witness: a match was paired from one queue while a player is still
\* waiting in another.
C4_Witness ==
  \E m \in DOMAIN activeMatches :
    \E k \in DOMAIN waitingPlayers :
      /\ k # <<activeMatches[m].gameType, activeMatches[m].currency>>
      /\ activeMatches[m].players[1].id # activeMatches[m].players[2].id

\* a find by playerId for gameType/currency is handled and pairs the player
FindPairs(playerId, gameType, currency) ==
  /\ Find(playerId, gameType, currency)
  /\ nextMatchId' = nextMatchId + 1

C6_DeveloperWalletAccumulates ==
  [][\A m \in MatchIds :
       (m \in DOMAIN activeMatches /\ m \notin DOMAIN activeMatches') =>
         developerWallet'.balance = developerWallet.balance +
           convertCurrency(matchHistory'[m].result.platformEarnings,
                           matchHistory'[m].currency, "INR")
     ]_vars

-----------------------------------------------------------------------------
(* Claims about the wallet system *)

\* C9: under every interleaving of the deposit, withdraw and process-winnings
\* handlers with the deposit-completion callbacks, no wallet's balance is
\* negative.
C9_BalanceNeverNegative ==
  \A u \in DOMAIN userWallets : userWallets[u].balance >= 0

\* a wallet that a withdrawal has debited while a deposit of the same user is
\* still waiting for its callback, left with less than the largest withdrawal
C9_Witness ==
  \E u \in DOMAIN userWallets :
    /\ \E w \in DOMAIN pendingWithdrawals : pendingWithdrawals[w].userId = u
    /\ \E t \in depositTimers : transactions[t].userId = u
    /\ userWallets[u].totalDeposits > userWallets[u].balance
    /\ \E a \in WithdrawAmounts : WithdrawCode(u, a, NoCurrency) = "INSUFFICIENT_BALANCE"

\* C10: a wallet keeps the native currency it was created with in every step,
\* and a step that answers a read of an existing wallet leaves the stored
\* wallets as they were and returns the stored native balance and currency
\* together with the balance converted to the display currency.
C10_NativeCurrencyFixed ==
  [][/\ \A u \in DOMAIN userWallets :
          /\ u \in DOMAIN userWallets'
          /\ userWallets'[u].currency = userWallets[u].currency
     /\ walletInfo' # walletInfo =>
          LET info == walletInfo'[1]
              wallet == userWallets'[info.userId]
          IN /\ info.userId \in DOMAIN userWallets => userWallets' = userWallets
             /\ info.nativeBalance = wallet.balance
             /\ info.nativeCurrency = wallet.currency
             /\ info.balance =
                  IF info.currency = wallet.currency THEN wallet.balance
                  ELSE convertCurrency(wallet.balance, wallet.currency, info.currency)]_vars

\* the last read showed a funded wallet in a currency other than its own, with
\* a display balance that differs from the stored one
C10_Witness ==
  /\ walletInfo # <<>>
  /\ walletInfo[1].userId \in DOMAIN userWallets
  /\ walletInfo[1].currency # walletInfo[1].nativeCurrency
  /\ walletInfo[1].nativeBalance > 0
  /\ walletInfo[1].balance # walletInfo[1].nativeBalance
  /\ userWallets[walletInfo[1].userId].balance = walletInfo[1].nativeBalance
  /\ userWallets[walletInfo[1].userId].currency = walletInfo[1].nativeCurrency

-----------------------------------------------------------------------------
(* Claims about the withdrawal processing script *)

\* C8: a withdrawal left in retry_scheduled is taken up again by a later run
\* with the attempts it has already failed, so a withdrawal never fails more
\* than 3 attempts, and one that has failed 3 attempts is finally failed.
C8_RetriedUntilSettled ==
  \A i \in DOMAIN batchQueue :
    LET w == batchQueue[i]
    IN /\ failedAttempts[w.id] <= PROCESSING_CONFIG.maxRetries
       /\ failedAttempts[w.id] = PROCESSING_CONFIG.maxRetries => w.status = "failed"

-----------------------------------------------------------------------------
(* Claims about the withdrawal system *)

\* one step forward along pending_approval, approved, processing,
\* completed | failed
ForwardSteps ==
  {<<"pending_approval", "approved">>, <<"approved", "processing">>,
   <<"processing", "completed">>, <<"processing", "failed">>}

\* every status assigned to a withdrawal object follows the previous one by
\* a step in allowed; every object starts as pending_approval
StatusChangesWithin(allowed) ==
  \A ref \in DOMAIN wdObjects :
    LET log == wdObjects[ref].statusLog
    IN /\ log[1] = "pending_approval"
       /\ log[Len(log)] = wdObjects[ref].status
       /\ \A i \in 1..(Len(log) - 1) : <<log[i], log[i + 1]>> \in allowed

\* C1 as written: across request, approve, cancel and the gateway callback
\* every status change is one step forward along pending_approval, approved,
\* processing, completed | failed, and there is no other transition.
C1_ForwardOnly == StatusChangesWithin(ForwardSteps)

\* C1 amended: every status change is one step forward along that sequence,
\* or the change from pending_approval to cancelled made by cancel.
C1_ForwardOrCancelled ==
  StatusChangesWithin(ForwardSteps \cup {<<"pending_approval", "cancelled">>})

\* C1 witness: one withdrawal went all the way to failed, another one was
\* cancelled while pending.
C1_Witness ==
  \E a, b \in DOMAIN wdObjects :
    /\ wdObjects[a].statusLog = <<"pending_approval", "approved", "processing", "failed">>
    /\ wdObjects[b].statusLog = <<"pending_approval", "cancelled">>

\* the withdrawal was approved and its payment is being processed
Approved(id) ==
  /\ id \in DOMAIN withdrawalRequests
  /\ wdObjects[withdrawalRequests[id]].status = "processing"

\* the withdrawal is settled and filed
Settled(id) ==
  /\ id \in DOMAIN completedWithdrawals
  /\ wdObjects[completedWithdrawals[id]].status \in {"completed", "failed"}
  /\ id \notin DOMAIN withdrawalRequests

\* C7: every withdrawal an admin approves eventually reaches completed or
\* failed, given that the gateway timer fires, and is then stored in
\* completedWithdrawals and no longer in withdrawalRequests.
C7_ApprovedEventuallySettled ==
  \A id \in WithdrawalIds : Approved(id) ~> Settled(id)

\* C7 witness: an approved withdrawal failed at the gateway and was filed.
C7_Witness ==
  \E id \in WithdrawalIds :
    /\ Settled(id)
    /\ wdObjects[completedWithdrawals[id]].statusLog
         = <<"pending_approval", "approved", "processing", "failed">>

-----------------------------------------------------------------------------
(* Claims about the KYC threshold *)

\* the amount is above the threshold in INR and the KYC status is not verified
needsKYC(amount, currency, kycStatus) ==
  convertCurrency(amount, currency, "INR") > KycLimitINR /\ kycStatus # "verified"

\* the wallet withdraw inputs of an existing wallet that need KYC
KycWithdrawInputs ==
  {in \in KycUsers \X WithdrawAmounts \X (WalletCurrencies \cup {NoCurrency}) :
     /\ in[1] \in DOMAIN userWallets
     /\ needsKYC(in[2], withdrawCurrencyOf(in[3], userWallets[in[1]]),
                 userWallets[in[1]].kycStatus)}

\* the withdrawal request inputs that need KYC
KycRequestInputs ==
  {in \in KycUsers \X KycRequestAmounts \X RequestCurrencies \X BOOLEAN \X KycStatuses :
     needsKYC(in[2], in[3], in[5])}

\* what the two handlers answer to a withdrawal that needs KYC
KycRejections ==
  /\ \A in \in KycWithdrawInputs :
       LET wallet == userWallets[in[1]]
           walletAmount == walletAmountOf(in[2], withdrawCurrencyOf(in[3], wallet), wallet)
       IN WithdrawCode(in[1], in[2], in[3]) =
            IF wallet.balance < walletAmount THEN "INSUFFICIENT_BALANCE" ELSE "KYC_REQUIRED"
  /\ \A in \in KycRequestInputs :
       RequestCode(in[1], in[2], in[3], in[4], in[5]) =
         IF in[2] < WITHDRAWAL_CONFIG.minAmount[in[3]] \/ in[2] > WITHDRAWAL_CONFIG.maxAmount[in[3]]
           THEN "AMOUNT_OUT_OF_RANGE" ELSE "KYC_REQUIRED"

-----------------------------------------------------------------------------
(* Claims about the hourly limit of withdrawal requests *)

\* the object that stands for withdrawal id now: the filed one once it is in
\* completedWithdrawals, else the one in withdrawalRequests
withdrawalOf(id) ==
  IF id \in DOMAIN completedWithdrawals THEN wdObjects[completedWithdrawals[id]]
  ELSE IF id \in DOMAIN withdrawalRequests THEN wdObjects[withdrawalRequests[id]]
  ELSE wdObjects[processingQueue[id]]

\* the accepted, non-cancelled requests of the user made in the hour that
\* ends at time t
AcceptedInHour(userId, t) ==
  {id \in 1..(nextWithdrawalId - 1) :
     /\ withdrawalOf(id).userId = userId
     /\ withdrawalOf(id).status # "cancelled"
     /\ withdrawalOf(id).timestamp > t - HourTicks
     /\ withdrawalOf(id).timestamp <= t}

\* C12: for each user at most 2 non-cancelled withdrawal requests made within
\* any one-hour window have been accepted.
C12_AtMostTwoPerHour ==
  \A u \in Users, t \in 0..MaxTime : Cardinality(AcceptedInHour(u, t)) <= 2

-----------------------------------------------------------------------------
(* Claims about failed withdrawals *)

\* C13: a step in which a withdrawal becomes failed credits the withdrawn
\* amount to the wallet of the withdrawal's user.
C13_FinalFailureRefunds ==
  [][\A ref \in DOMAIN wdObjects :
       LET w == wdObjects[ref]
       IN (w.status # "failed" /\ wdObjects'[ref].status = "failed") =>
            /\ w.userId \in DOMAIN userWallets'
            /\ LET wallet == userWallets'[w.userId]
                   before == IF w.userId \in DOMAIN userWallets
                               THEN userWallets[w.userId].balance ELSE 0
               IN wallet.balance = before + walletAmountOf(w.amount, w.currency, wallet)]_vars

-----------------------------------------------------------------------------
(* Claims about the OTP login *)

\* C14: a stored OTP has taken fewer than 3 incorrect attempts; an incorrect
\* code from the OTP's device is counted, and the third one deletes the OTP
\* and is answered OTP_ATTEMPTS_EXCEEDED; while no OTP is stored for a mobile
\* every verification, with whatever code, is answered OTP_NOT_FOUND, and only
\* a new login stores one again.
C14_ThreeIncorrectAttempts ==
  [][/\ \A m \in DOMAIN flutterOtpStore : flutterOtpStore[m].attempts < OtpMaxAttempts
     /\ \A m \in Mobiles, o \in OtpCodes, d \in Devices :
          VerifyMobile(m, o, d) =>
            /\ (/\ m \in DOMAIN flutterOtpStore
                /\ flutterOtpStore[m].deviceId = d
                /\ flutterOtpStore[m].otp # o) =>
                 IF flutterOtpStore[m].attempts = OtpMaxAttempts - 1
                   THEN /\ m \notin DOMAIN flutterOtpStore'
                        /\ verifyResponse'.code = "OTP_ATTEMPTS_EXCEEDED"
                   ELSE /\ m \in DOMAIN flutterOtpStore'
                        /\ flutterOtpStore'[m].attempts = flutterOtpStore[m].attempts + 1
                        /\ verifyResponse'.code = "INVALID_OTP"
            /\ m \notin DOMAIN flutterOtpStore =>
                 /\ verifyResponse'.code = "OTP_NOT_FOUND"
                 /\ m \notin DOMAIN flutterOtpStore'
     /\ \A m \in Mobiles :
          (m \notin DOMAIN flutterOtpStore /\ m \in DOMAIN flutterOtpStore') =>
            \E d \in Devices, o \in OtpCodes : MobileLogin(m, d, o)]_vars

\* the third incorrect attempt has just deleted the OTP of a mobile, and every
\* code is now answered OTP_NOT_FOUND
C14_Witness ==
  /\ verifyResponse.code = "OTP_ATTEMPTS_EXCEEDED"
  /\ verifyResponse.mobile \notin DOMAIN flutterOtpStore
  /\ \A o \in OtpCodes, d \in Devices :
       VerifyCode(verifyResponse.mobile, o, d) = "OTP_NOT_FOUND"

\* C15: a verification is answered OK only with the stored code, from the
\* OTP's device, at most 5 minutes after the OTP was issued; the stored code
\* presented from that device later than that is answered OTP_EXPIRED and the
\* OTP is deleted.
C15_ExpiresAfterFiveMinutes ==
  [][\A m \in Mobiles, o \in OtpCodes, d \in Devices :
       VerifyMobile(m, o, d) =>
         /\ verifyResponse'.code = "OK" =>
              /\ m \in DOMAIN flutterOtpStore
              /\ flutterOtpStore[m].otp = o
              /\ flutterOtpStore[m].deviceId = d
              /\ otpNow - flutterOtpStore[m].timestamp <= OtpExpiry
         /\ (/\ m \in DOMAIN flutterOtpStore
             /\ flutterOtpStore[m].otp = o
             /\ flutterOtpStore[m].deviceId = d
             /\ otpNow - flutterOtpStore[m].timestamp > OtpExpiry) =>
              /\ verifyResponse'.code = "OTP_EXPIRED"
              /\ m \notin DOMAIN flutterOtpStore']_vars

\* the stored code of a mobile was presented too late: the answer was
\* OTP_EXPIRED and the OTP is gone
C15_Witness ==
  /\ verifyResponse.code = "OTP_EXPIRED"
  /\ verifyResponse.mobile \notin DOMAIN flutterOtpStore
  /\ otpNow > OtpExpiry

-----------------------------------------------------------------------------
(* Claims about the players and the settlement of a match *)

\* the active matches the player takes part in
ActiveMatchesOf(playerId) ==
  {m \in DOMAIN activeMatches : InMatch(activeMatches[m], playerId)}

\* C16: at any time each player takes part in at most one active match.
C16_OneActiveMatchPerPlayer ==
  \A p \in Players : Cardinality(ActiveMatchesOf(p)) <= 1

\* C17: every match, active or in the history, has two distinct players.
C17_DistinctPlayers ==
  /\ \A m \in DOMAIN activeMatches :
       activeMatches[m].players[1].id # activeMatches[m].players[2].id
  /\ \A m \in DOMAIN matchHistory :
       matchHistory[m].players[1].id # matchHistory[m].players[2].id

\* every request for a match of the history is rejected
SettledMatchesRejectRequests ==
  \A m \in DOMAIN matchHistory :
    /\ m \notin DOMAIN activeMatches
    /\ CompleteCode(m) # "OK"
    /\ \A p \in Players : CancelCode(m, p) # "OK" /\ ScoreCode(m, p) # "OK"

\* C18: a match that leaves the active matches is stored in the history as
\* completed or cancelled with its result; a match of the history never
\* becomes active again, its record never changes, and every later complete,
\* cancel or score request for it is rejected.
C18_SettledOnce ==
  [][/\ \A m \in DOMAIN activeMatches :
          m \notin DOMAIN activeMatches' =>
            /\ m \in DOMAIN matchHistory'
            /\ matchHistory'[m].status \in {"completed", "cancelled"}
     /\ \A m \in DOMAIN matchHistory :
          /\ m \in DOMAIN matchHistory'
          /\ matchHistory'[m] = matchHistory[m]
     /\ \A m \in DOMAIN matchHistory' \ DOMAIN matchHistory : m \in DOMAIN activeMatches
     /\ SettledMatchesRejectRequests']_vars

\* one match was completed, another one cancelled, and neither is active
C18_Witness ==
  /\ \E m \in DOMAIN matchHistory : matchHistory[m].status = "completed"
  /\ \E m \in DOMAIN matchHistory : matchHistory[m].status = "cancelled"
  /\ activeMatches = EmptyMap

\* C19: a complete request for a match that has been completed is answered
\* MATCH_ALREADY_COMPLETED.
C19_AlreadyCompletedError ==
  \A m \in DOMAIN matchHistory :
    matchHistory[m].status = "completed" => CompleteCode(m) = "MATCH_ALREADY_COMPLETED"

\* C20: the result recorded for a drawn or cancelled match refunds each of its
\* two players exactly the bet amount of the match, and its platform earnings
\* are 0.
C20_DrawAndCancelRefundBets ==
  \A m \in DOMAIN matchHistory :
    LET match == matchHistory[m]
    IN match.result.type \in {"draw", "cancelled"} =>
         /\ Len(match.result.payouts) = 2
         /\ \A i \in 1..2 :
              /\ match.result.payouts[i].amount = match.betAmount
              /\ match.result.payouts[i].type = "refund"
         /\ \E i, j \in 1..2 :
              /\ i # j
              /\ match.result.payouts[i].playerId = match.players[1].id
              /\ match.result.payouts[j].playerId = match.players[2].id
         /\ match.result.platformEarnings = 0

\* a drawn match and a cancelled match of two different players, with a
\* positive bet refunded
C20_Witness ==
  /\ \E m \in DOMAIN matchHistory :
       /\ matchHistory[m].result.type = "draw"
       /\ matchHistory[m].players[1].id # matchHistory[m].players[2].id
       /\ matchHistory[m].result.payouts[1].amount > 0
  /\ \E m \in DOMAIN matchHistory : matchHistory[m].result.type = "cancelled"

-----------------------------------------------------------------------------
(* Claims about the events sent to the WebSocket clients *)

\* the event broadcast when a match leaves the active matches as `done'
finalEventOf(done) ==
  IF done.status = "cancelled" THEN "match_cancelled" ELSE "match_completed"

\* C21: when a match is completed or cancelled, every participant of that
\* match whose WebSocket is open at that moment is sent the final event,
\* match_completed or match_cancelled.
C21_FinalEventSent ==
  [][\A m \in MatchIds :
       (m \in DOMAIN activeMatches /\ m \notin DOMAIN activeMatches') =>
         \A i \in 1..2 :
           LET ws == activeMatches[m].players[i].ws
           IN (ws # NULL /\ sockets[ws].readyState = "OPEN") =>
                <<ws, finalEventOf(matchHistory'[m]), m>> \in delivered']_vars

\* the open sockets that have identified themselves as playerId
OpenSocketsOf(playerId) ==
  {s \in DOMAIN sockets :
     sockets[s].readyState = "OPEN" /\ sockets[s].playerId = playerId}

\* C22: when find pairs two players, match_found is delivered to both players
\* of the new match: to each of them on an open socket of theirs, if they
\* have one.
C22_MatchFoundDelivered ==
  [][\A m \in MatchIds :
       (m \notin DOMAIN activeMatches /\ m \in DOMAIN activeMatches') =>
         \A i \in 1..2 :
           LET mine == OpenSocketsOf(activeMatches'[m].players[i].id)
           IN mine # {} => \E s \in mine : <<s, "match_found", m>> \in delivered']_vars

=============================================================================
